---- MODULE Spec2Model ----
(***************************************************************************)
(* Cost-query reconciliation and caching layer of the billing dashboard:   *)
(* RealCostService::cached_query (server/src/service.rs), the cost-cache   *)
(* table it reads and upserts, and the Cost Explorer fetch closures it is  *)
(* given.                                                                  *)
(*                                                                         *)
(* Dates.  The code handles dates as "YYYY-MM-DD" strings and compares     *)
(* them with the string order.  For well-formed ISO dates that order is    *)
(* the calendar order, so a date is modelled by its day number and a       *)
(* month is a block of MonthLen consecutive days; first-of-month           *)
(* formatting ("{:04}-{:02}-01") is FirstOfMonth.                          *)
(***************************************************************************)
EXTENDS Integers, Sequences, FiniteSets, Bags, TLC

VARIABLES
    now,      \* chrono::Utc::now().date_naive(), as a day number
    cache,    \* rows of the cost-cache table
    req,      \* per request task: position in cached_query and its locals
    wbs,      \* detached write-back tasks spawned and not yet run (a bag)
    plan,     \* the callers' scenario: the key they query, and how
    hist,     \* observer: summaries of the calls returned in a repeated scenario
    lost      \* observer: write-backs that failed in a repeated scenario

vars == <<now, cache, req, wbs, plan, hist, lost>>

-----------------------------------------------------------------------------
(* Bounds of the model *)

MaxDay == 2       \* 'now' ranges over days 0..MaxDay
MonthLen == 2     \* days per month
MaxWb == 2        \* requests in flight plus write-backs pending
MaxCalls == 2     \* calls of a repeated scenario
MaxItems == 3     \* items handed to the aggregator

Days == 0 .. MaxDay
Dates == 0 .. (MaxDay + 1)
Kinds == {"daily", "monthly"}
Filters == {"", "user:u1"}
Procs == {"p1", "p2"}

Min(a, b) == IF a < b THEN a ELSE b

\* The per-filter variants of the time series and the ids they are given.
Variants == {"none", "user", "model"}
Ids == {"u1"}

\* filter_id: "" for the unfiltered queries, format!("user:{}", user_id),
\* format!("model:{}", model_id).
FilterId(variant, id) == IF variant = "none" THEN "" ELSE (variant \o ":") \o id

AllFilters == {FilterId(v, id) : v \in Variants, id \in Ids}

-----------------------------------------------------------------------------
(* Dates and the freshness boundary *)

FirstOfMonth(d) == d - (d % MonthLen)

\* let cutoff = if query_type == "monthly" { first of month } else { today }
Cutoff(query_type, today) ==
    IF query_type = "monthly" THEN FirstOfMonth(today) ELSE today

\* A cache_end that forgets the cutoff.
CacheEnd_IgnoreCutoff(cutoff, end) == end

\* let cache_end = if cutoff < end { &cutoff } else { end }
CacheEnd(cutoff, end) == IF cutoff < end THEN cutoff ELSE end

DateRange(lo, hi) == lo .. (hi - 1)

-----------------------------------------------------------------------------
(* The billing API (Cost Explorer) and the fetch closures *)

\* The cost of one day under a filter: the test double of the specification
\* (a fixed amount per day), different per filter.
DayCost(filter_id, d) ==
    IF filter_id = "" THEN 2 ELSE IF filter_id = "user:u1" THEN 1 ELSE 3

RECURSIVE SumCost(_, _, _)
SumCost(filter_id, lo, hi) ==
    IF lo >= hi THEN 0 ELSE DayCost(filter_id, lo) + SumCost(filter_id, lo + 1, hi)

\* ce::get_daily_cost: Granularity::Daily, one CostRecord per
\* results_by_time entry, date = the entry's period start.
RECURSIVE DailyRecords(_, _, _)
DailyRecords(filter_id, lo, hi) ==
    IF lo >= hi THEN <<>>
    ELSE <<[date |-> lo, amount |-> DayCost(filter_id, lo), currency |-> "USD"]>>
         \o DailyRecords(filter_id, lo + 1, hi)

\* End of the monthly bucket that starts at lo: the end of lo's month,
\* clipped to the requested period.
BucketEnd(lo, hi) == Min(FirstOfMonth(lo) + MonthLen, hi)

\* The monthly fetch: one CostRecord per month of the period, dated by the
\* start of the bucket (the period start for a month entered part-way).
RECURSIVE MonthlyRecords(_, _, _)
MonthlyRecords(filter_id, lo, hi) ==
    IF lo >= hi THEN <<>>
    ELSE <<[date |-> lo, amount |-> SumCost(filter_id, lo, BucketEnd(lo, hi)),
            currency |-> "USD"]>>
         \o MonthlyRecords(filter_id, BucketEnd(lo, hi), hi)

\* The records the billing API returns for a kind, a filter and a period.
CeRecords(query_type, filter_id, lo, hi) ==
    IF query_type = "daily" THEN DailyRecords(filter_id, lo, hi)
    ELSE MonthlyRecords(filter_id, lo, hi)

\* A fetch that answers a failure with records of amount zero.
CeFn_ZeroOnError(query_type, filter_id, s, e, ok) ==
    IF ok THEN CeRecords(query_type, filter_id, s, e)
    ELSE [i \in 1 .. Len(CeRecords(query_type, filter_id, s, e)) |->
             [CeRecords(query_type, filter_id, s, e)[i] EXCEPT !.amount = 0]]

\* The closure handed to cached_query: the fetch, with unwrap_or_else turning
\* an Err into Vec::new().
CeFn(query_type, filter_id, s, e, ok) ==
    IF ok THEN CeRecords(query_type, filter_id, s, e) ELSE <<>>

\* The dimension breakdowns and the tag each groups by.
BreakdownOps == {"cost_by_user", "cost_by_model",
                 "cost_by_model_for_user", "cost_by_user_for_model"}

GroupedBy(op) ==
    IF op \in {"cost_by_user", "cost_by_user_for_model"} THEN "user" ELSE "model"

\* The per-entity totals the billing API's breakdown gives for a period: one
\* group per monthly bucket and entity, summed per entity by the aggregator.
\* An empty period has no bucket.
BreakdownRecords(op, lo, hi) ==
    IF lo >= hi THEN <<>>
    ELSE <<[id |-> "u1", name |-> <<>>,
            amount |-> SumCost(FilterId(GroupedBy(op), "u1"), lo, hi),
            currency |-> "USD"]>>

\* A breakdown that hands on the records although the call failed.
BreakdownFn_IgnoreError(op, s, e, ok) == BreakdownRecords(op, s, e)

\* ce::get_cost_by_...(...).await.unwrap_or_else(|e| Vec::new())
BreakdownFn(op, s, e, ok) == IF ok THEN BreakdownRecords(op, s, e) ELSE <<>>

-----------------------------------------------------------------------------
(* The aggregator: ce::aggregate_by_key *)

\* The items handed to the aggregator: CostByUser / CostByModel values, the
\* key function reading the id.  Amounts are whole numbers (the code's are
\* f64).
ItemKeys == {"u1", "u2", "u3"}

Items == [id : ItemKeys, amount : {1, 2}, currency : {"USD", "EUR"}]

ItemSeqs == UNION {[1 .. n -> Items] : n \in 0 .. MaxItems}

KeyFn(item) == item.id

\* One turn of the loop that overwrites the entry instead of adding to it.
Accumulate_Overwrite(map, item) ==
    [k \in DOMAIN map \cup {KeyFn(item)} |->
        IF k # KeyFn(item) THEN map[k]
        ELSE IF k \in DOMAIN map
             THEN [amount |-> item.amount, currency |-> map[k].currency]
             ELSE [amount |-> item.amount, currency |-> item.currency]]

\* One turn of the loop that takes the currency of the item at hand.
Accumulate_LastCurrency(map, item) ==
    [k \in DOMAIN map \cup {KeyFn(item)} |->
        IF k # KeyFn(item) THEN map[k]
        ELSE IF k \in DOMAIN map
             THEN [amount |-> map[k].amount + item.amount, currency |-> item.currency]
             ELSE [amount |-> item.amount, currency |-> item.currency]]

\* One turn of the loop:
\*   let entry = map.entry(key).or_insert((0.0, item.currency().to_string()));
\*   entry.0 += item.amount();
Accumulate(map, item) ==
    [k \in DOMAIN map \cup {KeyFn(item)} |->
        IF k # KeyFn(item) THEN map[k]
        ELSE IF k \in DOMAIN map
             THEN [amount |-> map[k].amount + item.amount, currency |-> map[k].currency]
             ELSE [amount |-> 0 + item.amount, currency |-> item.currency]]

\* for item in &items { ... }, from the empty map
RECURSIVE AggMap(_, _)
AggMap(items, n) ==
    IF n = 0 THEN << >> ELSE Accumulate(AggMap(items, n - 1), items[n])

\* The orders map.into_iter() may yield the keys in: any.
IterOrders(keys) ==
    {o \in [1 .. Cardinality(keys) -> keys] : \A i, j \in DOMAIN o : i # j => o[i] # o[j]}

\* A comparator that sorts ascending.
SortsBefore_Ascending(a, b) == a.amount < b.amount

\* sort_by(|a, b| b.1.partial_cmp(&a.1)): a goes before b when its amount is
\* strictly greater.
SortsBefore(a, b) == b.amount < a.amount

\* The sort is stable: an element is placed before the first one it sorts
\* before, behind every element it ties with.
RECURSIVE InsertStable(_, _)
InsertStable(sorted, x) ==
    IF sorted = << >> THEN <<x>>
    ELSE IF SortsBefore(x, Head(sorted)) THEN <<x>> \o sorted
    ELSE <<Head(sorted)>> \o InsertStable(Tail(sorted), x)

RECURSIVE SortStable(_, _)
SortStable(entries, n) ==
    IF n = 0 THEN << >> ELSE InsertStable(SortStable(entries, n - 1), entries[n])

\* aggregate_by_key(items, key_fn), the map iterated in the given order.
AggregateByKey(items, order) ==
    LET map == AggMap(items, Len(items))
        entries == [i \in 1 .. Len(order) |->
                      [id |-> order[i], amount |-> map[order[i]].amount,
                       currency |-> map[order[i]].currency]]
    IN SortStable(entries, Len(entries))

-----------------------------------------------------------------------------
(* Identity resolution of the dimension breakdowns *)

\* Uuid::parse_str(id).ok()?, then to_string().to_lowercase(): the canonical
\* form of an id that is a UUID, nothing for one that is not.
ParseUuid(id) == IF id \in {"ab01", "AB01"} THEN <<"ab01">> ELSE << >>

\* The ids a breakdown may carry: not a UUID, a UUID, a UUID in upper case.
EntityIds == {"u1", "ab01", "AB01"}

\* What the lookup in the application database may come to.
LookupOutcomes == {"row", "no_row", "error"}

\* users.user_email / models.model_name of a canonical id.
StoredName(dim, uuid) == IF dim = "user" THEN "alice@example.com" ELSE "claude-3"

\* get_user_email / get_model_name: None unless the id parses and
\* fetch_optional(..).await.ok().flatten() yields a row.
Resolve(dim, id, outcome) ==
    IF ParseUuid(id) = << >> THEN << >>
    ELSE IF outcome = "row" THEN <<StoredName(dim, ParseUuid(id)[1])>>
    ELSE << >>

\* An enrichment that keeps only the entries it could resolve.
Enrich_DropUnresolved(costs, dim, lk) ==
    SelectSeq([i \in 1 .. Len(costs) |->
                  [costs[i] EXCEPT !.name = Resolve(dim, costs[i].id, lk[i])]],
              LAMBDA c : c.name # << >>)

\* for cost in &mut costs { cost.user_email = self.get_user_email(..).await }
Enrich(costs, dim, lk) ==
    [i \in 1 .. Len(costs) |->
        [costs[i] EXCEPT !.name = Resolve(dim, costs[i].id, lk[i])]]

\* The cell a page shows for an entry:
\* c.user_email.clone().unwrap_or_else(|| c.user_id.clone())
Display(c) == IF c.name # << >> THEN c.name[1] ELSE c.id

\* The entries a billing breakdown may return: one per id, names unset.
CostEntries == [id : EntityIds, name : {<< >>}, amount : {1, 2}, currency : {"USD"}]

CostSeqs ==
    {<< >>} \cup {<<a>> : a \in CostEntries}
           \cup {q \in {<<a, b>> : a \in CostEntries, b \in CostEntries} :
                    q[1].id # q[2].id}

-----------------------------------------------------------------------------
(* The cache store *)

CacheRow(query_type, filter_id, r) ==
    [query_type |-> query_type, filter_id |-> filter_id,
     date |-> r.date, amount |-> r.amount, currency |-> r.currency]

RECURSIVE SortByDate(_)
SortByDate(S) ==
    IF S = {} THEN <<>>
    ELSE LET m == CHOOSE r \in S : \A q \in S : r.date <= q.date
         IN <<[date |-> m.date, amount |-> m.amount, currency |-> m.currency]>>
            \o SortByDate(S \ {m})

\* get(query_kind, filter_id, start, end): the rows of the key with
\* start <= date < end, ascending by date.
GetCachedCosts(rows, query_type, filter_id, start, end) ==
    SortByDate({r \in rows : /\ r.query_type = query_type
                             /\ r.filter_id = filter_id
                             /\ start <= r.date
                             /\ r.date < end})

\* put(query_kind, filter_id, records) upserts the records one row at a time,
\* each row an atomic insert-or-update-on-conflict on (query_kind, filter_id,
\* date); there is no transaction around the rows.
UpsertRow(rows, row) ==
    {r \in rows : ~(/\ r.query_type = row.query_type
                    /\ r.filter_id = row.filter_id
                    /\ r.date = row.date)} \cup {row}

-----------------------------------------------------------------------------
(* cached_query, one request task per element of Procs *)

Idle ==
    [pc |-> "idle", query_type |-> "", filter_id |-> "", start |-> 0, end |-> 0,
     today |-> 0, cutoff |-> 0, cache_end |-> 0,
     reads |-> <<>>, cached |-> <<>>, readOk |-> TRUE, lostSeen |-> 0,
     path |-> "none", from_ce |-> <<>>, spawned |-> <<>>, live |-> <<>>,
     calls |-> <<>>, results |-> <<>>,
     session |-> [ok |-> FALSE, email |-> <<>>], status |-> "", location |-> ""]

\* The request tasks a scenario uses: one caller issuing one query at a time,
\* or every task, issuing the same query concurrently.
Callers(mode) == IF mode = "concurrent" THEN Procs ELSE {"p1"}

InFlight == {p \in Procs : req[p].pc # "idle"}

\* A finalized portion entered also when start equals cache_end.
HasFinalized_Inclusive(start, cache_end) == start <= cache_end

\* if start < cache_end { finalized portion }
HasFinalized(start, cache_end) == start < cache_end

\* if cache_end < end { live portion }
HasLive(cache_end, end) == cache_end < end

\* A live fetch that starts over from the start of the request.
LiveFrom_FromStart(start, cache_end) == start

\* The start of the range the live fetch is asked for: ce_fn(cache_end, end).
LiveFrom(start, cache_end) == cache_end

\* A coverage check whose emptiness test is inverted.
CoverageOk_AcceptEmpty(cached, start) == cached = <<>> \/ cached[1].date <= start

\* A coverage check that only asks for a non-empty read.
CoverageOk_NonEmptyOnly(cached, start) == cached # <<>>

\* if !cached.is_empty() && cached[0].date.as_str() <= start
CoverageOk(cached, start) == cached # <<>> /\ cached[1].date <= start

\* A live portion that replaces the result instead of extending it.
LiveResults_Replace(results, live) == live

\* results.extend(live)
LiveResults(results, live) == results \o live

\* A task that writes under the unfiltered key whatever the call's filter.
WbTask_Unfiltered(query_type, filter_id, records) ==
    [query_type |-> query_type, filter_id |-> "", records |-> records, n |-> 0]

\* A task that loses the last record of the fetch.
WbTask_DropLast(query_type, filter_id, records) ==
    [query_type |-> query_type, filter_id |-> filter_id,
     records |-> SubSeq(records, 1, Len(records) - 1), n |-> 0]

\* A miss that refetches only the dates before the first cached one.
FetchEnd_FirstCached(r) == IF r.cached # <<>> THEN r.cached[1].date ELSE r.cache_end

\* The end of the range the miss path fetches: ce_fn(start, cache_end).
FetchEnd(r) == r.cache_end

AfterFinalized(r) == IF HasLive(r.cache_end, r.end) THEN "live" ELSE "done"

\* The detached task: tokio::spawn(async move { upsert_cached_costs(records) }).
WbTask(query_type, filter_id, records) ==
    [query_type |-> query_type, filter_id |-> filter_id, records |-> records, n |-> 0]

\* A runtime that coalesces a task with an equal one already pending.
Spawn_Coalesced(tasks, task) == IF BagIn(task, tasks) THEN tasks ELSE tasks (+) SetToBag({task})

\* A spawn that drops the task instead of handing it to the runtime.
Spawn_Dropped(tasks, task) == tasks

\* tokio::spawn: the task is handed to the runtime and the JoinHandle is
\* dropped; nothing awaits it.
Spawn(tasks, task) == tasks (+) SetToBag({task})

\* Entry of cached_query: today, cutoff and cache_end are computed once.
Begin(p, query_type, filter_id, start, end) ==
    /\ req[p].pc = "idle"
    /\ Cardinality(InFlight) + BagCardinality(wbs) < MaxWb
    /\ p \in Callers(plan.mode)
    /\ \/ query_type = plan.query_type /\ filter_id = plan.filter_id
       \/ /\ plan.mode = "mixed"
          /\ query_type = plan.other.query_type /\ filter_id = plan.other.filter_id
    /\ plan.mode \in {"repeat", "concurrent"} =>
          /\ Len(hist) + Cardinality(InFlight) < MaxCalls
          /\ start = plan.start /\ end = plan.end
    /\ LET cutoff == Cutoff(query_type, now)
           cache_end == CacheEnd(cutoff, end)
       IN req' = [req EXCEPT ![p] =
                    [Idle EXCEPT !.pc = IF HasFinalized(start, cache_end) THEN "read"
                                        ELSE IF HasLive(cache_end, end) THEN "live"
                                        ELSE "done",
                                 !.query_type = query_type, !.filter_id = filter_id,
                                 !.start = start, !.end = end, !.today = now,
                                 !.cutoff = cutoff, !.cache_end = cache_end]]
    /\ UNCHANGED <<now, cache, wbs, plan, hist, lost>>

\* db::get_cached_costs(...).await.unwrap_or_default(), then the coverage check.
Read(p, ok) ==
    /\ req[p].pc = "read"
    /\ LET r == req[p]
           cached == IF ok THEN GetCachedCosts(cache, r.query_type, r.filter_id,
                                               r.start, r.cache_end)
                     ELSE <<>>
           seen == [r EXCEPT !.cached = cached, !.readOk = ok, !.lostSeen = lost,
                             !.reads = Append(r.reads,
                                              [lo |-> r.start, hi |-> r.cache_end])]
       IN req' = [req EXCEPT ![p] =
                    IF CoverageOk(cached, r.start)
                    THEN [seen EXCEPT !.path = "hit",
                                      !.results = r.results \o cached,
                                      !.pc = AfterFinalized(r)]
                    ELSE [seen EXCEPT !.path = "miss", !.pc = "fetch"]]
    /\ UNCHANGED <<now, cache, wbs, plan, hist, lost>>

\* The miss path: ce_fn(start, cache_end).await, tokio::spawn of the upsert
\* of a clone of the records, results.extend(from_ce).
Fetch(p, ok) ==
    /\ req[p].pc = "fetch"
    /\ LET r == req[p]
           from_ce == CeFn(r.query_type, r.filter_id, r.start, FetchEnd(r), ok)
           task == WbTask(r.query_type, r.filter_id, from_ce)
       IN /\ req' = [req EXCEPT ![p] =
                       [r EXCEPT !.from_ce = from_ce,
                                 !.spawned = Append(r.spawned, task),
                                 !.calls = Append(r.calls,
                                     [part |-> "finalized", lo |-> r.start,
                                      hi |-> FetchEnd(r), ok |-> ok]),
                                 !.results = r.results \o from_ce,
                                 !.pc = AfterFinalized(r)]]
          /\ wbs' = Spawn(wbs, task)
    /\ UNCHANGED <<now, cache, plan, hist, lost>>

\* A live portion that also writes its records back.
Live_WritesBack(p, ok) ==
    /\ req[p].pc = "live"
    /\ LET r == req[p]
           live == CeFn(r.query_type, r.filter_id, r.cache_end, r.end, ok)
       IN /\ req' = [req EXCEPT ![p] =
                       [r EXCEPT !.live = live,
                                 !.calls = Append(r.calls,
                                     [part |-> "live", lo |-> r.cache_end,
                                      hi |-> r.end, ok |-> ok]),
                                 !.results = r.results \o live,
                                 !.pc = "done"]]
          /\ wbs' = wbs (+) SetToBag({WbTask(r.query_type, r.filter_id, live)})
    /\ UNCHANGED <<now, cache, plan, hist, lost>>

\* The live portion: ce_fn(cache_end, end).await, results.extend(live).
Live(p, ok) ==
    /\ req[p].pc = "live"
    /\ LET r == req[p]
           lo == LiveFrom(r.start, r.cache_end)
           live == CeFn(r.query_type, r.filter_id, lo, r.end, ok)
       IN req' = [req EXCEPT ![p] =
                    [r EXCEPT !.live = live,
                              !.calls = Append(r.calls,
                                  [part |-> "live", lo |-> lo, hi |-> r.end, ok |-> ok]),
                              !.results = LiveResults(r.results, live),
                              !.pc = "done"]]
    /\ UNCHANGED <<now, cache, wbs, plan, hist, lost>>

\* cached_query returns results to its caller; the task ends.
Return(p) ==
    /\ req[p].pc = "done"
    /\ req' = [req EXCEPT ![p] = Idle]
    /\ hist' = IF plan.mode \in {"repeat", "concurrent"}
               THEN Append(hist, [req[p] EXCEPT !.pc = "returned"])
               ELSE hist
    /\ UNCHANGED <<now, cache, wbs, plan, lost>>

\* The await points of cached_query: the cache read, the finalized fetch and
\* the live fetch.
AwaitPoints == {"read", "fetch", "live"}

\* A cancellation that also aborts the write-backs still pending.
Cancel_AbortsTasks(p) ==
    /\ req[p].pc \in AwaitPoints
    /\ req' = [req EXCEPT ![p] = Idle]
    /\ hist' = IF plan.mode \in {"repeat", "concurrent"}
               THEN Append(hist, [req[p] EXCEPT !.pc = "cancelled"])
               ELSE hist
    /\ wbs' = IF req[p].spawned # <<>> THEN EmptyBag ELSE wbs
    /\ UNCHANGED <<now, cache, plan, lost>>

\* The caller drops the future of cached_query at an await point: the call
\* in flight (the read or the billing fetch) is dropped with it and the rest
\* of the body never runs; a task already spawned is not owned by the future.
Cancel(p) ==
    /\ req[p].pc \in AwaitPoints
    /\ req' = [req EXCEPT ![p] = Idle]
    /\ hist' = IF plan.mode \in {"repeat", "concurrent"}
               THEN Append(hist, [req[p] EXCEPT !.pc = "cancelled"])
               ELSE hist
    /\ UNCHANGED <<now, cache, wbs, plan, lost>>

\* A write-back that inserts its next row without resolving the conflict.
WriteBack_InsertOnly(t) ==
    /\ BagIn(t, wbs)
    /\ cache' = IF t.n < Len(t.records)
                THEN cache \cup {CacheRow(t.query_type, t.filter_id, t.records[t.n + 1])}
                ELSE cache
    /\ wbs' = IF t.n + 1 < Len(t.records)
              THEN (wbs (-) SetToBag({t})) (+) SetToBag({[t EXCEPT !.n = t.n + 1]})
              ELSE wbs (-) SetToBag({t})
    /\ UNCHANGED <<now, req, plan, hist, lost>>

\* The detached task runs one step of db::upsert_cached_costs: the next row
\* is upserted; after the last row (or at once, for no rows) the task ends.
WriteBack(t) ==
    /\ BagIn(t, wbs)
    /\ cache' = IF t.n < Len(t.records)
                THEN UpsertRow(cache, CacheRow(t.query_type, t.filter_id,
                                               t.records[t.n + 1]))
                ELSE cache
    /\ wbs' = IF t.n + 1 < Len(t.records)
              THEN (wbs (-) SetToBag({t})) (+) SetToBag({[t EXCEPT !.n = t.n + 1]})
              ELSE wbs (-) SetToBag({t})
    /\ UNCHANGED <<now, req, plan, hist, lost>>

\* The upsert fails at its next row: `let _ =` drops the error, the task ends
\* and the rows already written stay.
WriteBackErr(t) ==
    /\ BagIn(t, wbs)
    /\ wbs' = wbs (-) SetToBag({t})
    /\ lost' = IF plan.mode = "repeat" THEN lost + 1 ELSE lost
    /\ UNCHANGED <<now, cache, req, plan, hist>>

\* Entry of a dimension breakdown, by a task that runs no time series.
BreakdownBegin(p, op, start, end) ==
    /\ plan.mode = "breakdown" /\ op = plan.op
    /\ p \notin Callers(plan.mode)
    /\ req[p].pc = "idle"
    /\ req' = [req EXCEPT ![p] =
                 [Idle EXCEPT !.pc = "breakdown", !.query_type = op,
                              !.start = start, !.end = end, !.today = now]]
    /\ UNCHANGED <<now, cache, wbs, plan, hist, lost>>

\* The direct billing call of a breakdown, an Err turned into an empty list;
\* the names are then looked up in the application database (ids that are
\* not UUIDs have none).
BreakdownFetch(p, ok) ==
    /\ req[p].pc = "breakdown"
    /\ LET r == req[p]
       IN req' = [req EXCEPT ![p] =
                    [r EXCEPT !.calls = Append(r.calls,
                                  [part |-> "breakdown", lo |-> r.start,
                                   hi |-> r.end, ok |-> ok]),
                              !.results = BreakdownFn(r.query_type, r.start, r.end, ok),
                              !.pc = "done"]]
    /\ UNCHANGED <<now, cache, wbs, plan, hist, lost>>

\* A call of the aggregator on the items a breakdown collected; the hash
\* map yields its entries in some order.
AggregateCall(p, items, order) ==
    /\ plan.mode = "aggregate"
    /\ req[p].pc = "idle"
    /\ order \in IterOrders({KeyFn(items[i]) : i \in 1 .. Len(items)})
    /\ req' = [req EXCEPT ![p] =
                 [Idle EXCEPT !.pc = "done", !.query_type = "aggregate",
                              !.from_ce = items,
                              !.results = AggregateByKey(items, order)]]
    /\ UNCHANGED <<now, cache, wbs, plan, hist, lost>>

\* get_cost_by_user / get_cost_by_model on the entries the billing call
\* returned: every entry's name is looked up and the entries are returned.
\* A lookup reaches the database only for an id that is a UUID.
EnrichCall(p, op, costs, lk) ==
    /\ plan.mode = "enrich"
    /\ req[p].pc = "idle"
    /\ req' = [req EXCEPT ![p] =
                 [Idle EXCEPT !.pc = "done", !.query_type = op,
                              !.from_ce = costs,
                              !.calls = SelectSeq(
                                  [i \in 1 .. Len(costs) |->
                                      [part |-> "lookup", id |-> costs[i].id,
                                       outcome |-> lk[i],
                                       sent |-> ParseUuid(costs[i].id) # << >>]],
                                  LAMBDA c : c.sent),
                              !.results = Enrich(costs, GroupedBy(op), lk)]]
    /\ UNCHANGED <<now, cache, wbs, plan, hist, lost>>

\* The records a put may be handed: any amount and currency for a date.
PutDates == {0, 1}

PutRecords ==
    {[date |-> d, amount |-> 1, currency |-> "USD"] : d \in PutDates}
    \cup {[date |-> d, amount |-> 2, currency |-> "EUR"] : d \in PutDates}

PutSeqs ==
    {<<>>} \cup {<<a>> : a \in PutRecords}
           \cup {<<a, b>> : a \in PutRecords, b \in PutRecords}

\* A put on its own: db::upsert_cached_costs(pool, qt, fi, records) spawned
\* with whatever records a fetch returned, one writer per task of Procs.
PutCall(filter_id, records) ==
    /\ plan.mode = "put"
    /\ BagCardinality(wbs) < Cardinality(Procs)
    /\ wbs' = Spawn(wbs, WbTask(plan.query_type, filter_id, records))
    /\ UNCHANGED <<now, cache, req, plan, hist, lost>>

\* The clock: a day passes.
Tick ==
    /\ now < MaxDay
    /\ now' = now + 1
    /\ UNCHANGED <<cache, req, wbs, plan, hist, lost>>

-----------------------------------------------------------------------------
(* Specifications *)

Start ==
    /\ cache = {}
    /\ req = [p \in Procs |-> Idle]
    /\ wbs = EmptyBag
    /\ hist = <<>>
    /\ lost = 0

\* A caller issuing arbitrary queries under one (query_kind, filter_id), one
\* at a time, as days pass.
Init ==
    /\ Start
    /\ now \in Days
    /\ plan \in [mode : {"serial"}, query_type : Kinds, filter_id : Filters,
                 start : {0}, end : {0}]

Next ==
    \/ Tick
    \/ \E p \in Procs, qt \in Kinds, fi \in Filters, s \in Dates, e \in Dates :
          Begin(p, qt, fi, s, e)
    \/ \E p \in Procs : Read(p, TRUE)
    \/ \E p \in Procs : Read(p, FALSE)
    \/ \E p \in Procs : Fetch(p, TRUE)
    \/ \E p \in Procs : Fetch(p, FALSE)
    \/ \E p \in Procs : Live(p, TRUE)
    \/ \E p \in Procs : Live(p, FALSE)
    \/ \E p \in Procs : Return(p)
    \/ \E t \in BagToSet(wbs) : WriteBack(t)
    \/ \E t \in BagToSet(wbs) : WriteBackErr(t)

Spec == Init /\ [][Next]_vars

\* The same caller with a billing API, a cache read and a cache write that
\* always succeed.
NextOK ==
    \/ Tick
    \/ \E p \in Procs, qt \in Kinds, fi \in Filters, s \in Dates, e \in Dates :
          Begin(p, qt, fi, s, e)
    \/ \E p \in Procs : Read(p, TRUE)
    \/ \E p \in Procs : Fetch(p, TRUE)
    \/ \E p \in Procs : Live(p, TRUE)
    \/ \E p \in Procs : Return(p)
    \/ \E t \in BagToSet(wbs) : WriteBack(t)

SpecOK == Init /\ [][NextOK]_vars

\* query(daily, "", 2024-01-01, 2024-01-10) with now = 2024-01-08; day n is
\* 2024-01-n.
JanPlan ==
    [mode |-> "repeat", query_type |-> "daily", filter_id |-> "",
     start |-> 1, end |-> 10]

JanNow == [today |-> 8]

\* A caller repeating one query on a cache that starts empty, on one day.
InitRepeat ==
    /\ Start
    /\ \/ /\ now \in Days
          /\ plan \in [mode : {"repeat"}, query_type : Kinds, filter_id : Filters,
                       start : Dates, end : Dates]
       \/ /\ now = JanNow.today
          /\ plan = JanPlan

NextRepeat ==
    \/ \E p \in Procs :
          Begin(p, plan.query_type, plan.filter_id, plan.start, plan.end)
    \/ \E p \in Procs : Read(p, TRUE)
    \/ \E p \in Procs : Read(p, FALSE)
    \/ \E p \in Procs : Fetch(p, TRUE)
    \/ \E p \in Procs : Fetch(p, FALSE)
    \/ \E p \in Procs : Live(p, TRUE)
    \/ \E p \in Procs : Live(p, FALSE)
    \/ \E p \in Procs : Return(p)
    \/ \E t \in BagToSet(wbs) : WriteBack(t)
    \/ \E t \in BagToSet(wbs) : WriteBackErr(t)

SpecRepeat == InitRepeat /\ [][NextRepeat]_vars

\* A caller repeating one unfiltered query and abandoning calls at will; the
\* billing API and the cache reads succeed, a write-back may fail.
InitCancel ==
    /\ Start
    /\ now \in Days
    /\ plan \in [mode : {"repeat"}, query_type : Kinds, filter_id : {""},
                 start : {0}, end : Dates]

NextCancel ==
    \/ \E p \in Procs :
          Begin(p, plan.query_type, plan.filter_id, plan.start, plan.end)
    \/ \E p \in Procs : Read(p, TRUE)
    \/ \E p \in Procs : Fetch(p, TRUE)
    \/ \E p \in Procs : Live(p, TRUE)
    \/ \E p \in Procs : Return(p)
    \/ \E p \in Procs : Cancel(p)
    \/ \E t \in BagToSet(wbs) : WriteBack(t)
    \/ \E t \in BagToSet(wbs) : WriteBackErr(t)

\* The runtime keeps polling a spawned task until it ends.
TaskStep == \E t \in BagToSet(wbs) : WriteBack(t) \/ WriteBackErr(t)

SpecCancel == InitCancel /\ [][NextCancel]_vars /\ WF_vars(TaskStep)

\* A caller mixing queries of a by-user series with queries of any other of
\* the six time series (daily or monthly; unfiltered, by user, by model), on
\* one day; the billing API, the cache reads and the cache writes succeed.
InitMixed ==
    /\ Start
    /\ now \in Days
    /\ plan \in [mode : {"mixed"}, query_type : Kinds,
                 filter_id : {FilterId("user", id) : id \in Ids},
                 start : {0}, end : {0},
                 other : [query_type : Kinds, filter_id : AllFilters]]
    /\ <<plan.query_type, plan.filter_id>> # <<plan.other.query_type, plan.other.filter_id>>

NextMixed ==
    \/ \E p \in Procs, qt \in Kinds, v \in Variants, id \in Ids, e \in Dates :
          Begin(p, qt, FilterId(v, id), plan.start, e)
    \/ \E p \in Procs : Read(p, TRUE)
    \/ \E p \in Procs : Fetch(p, TRUE)
    \/ \E p \in Procs : Live(p, TRUE)
    \/ \E p \in Procs : Return(p)
    \/ \E t \in BagToSet(wbs) : WriteBack(t)

SpecMixed == InitMixed /\ [][NextMixed]_vars

\* A caller of the unfiltered time series and, beside it, a caller of one
\* dimension breakdown, on one day; the time series' I/O succeeds, the
\* breakdown's billing call may fail.
InitBreakdown ==
    /\ Start
    /\ now \in Days
    /\ plan \in [mode : {"breakdown"}, query_type : Kinds, filter_id : {""},
                 start : {0}, end : {0}, op : BreakdownOps]

NextBreakdown ==
    \/ \E p \in Procs, e \in Dates :
          Begin(p, plan.query_type, plan.filter_id, plan.start, e)
    \/ \E p \in Procs : Read(p, TRUE)
    \/ \E p \in Procs : Fetch(p, TRUE)
    \/ \E p \in Procs : Live(p, TRUE)
    \/ \E p \in Procs : Return(p)
    \/ \E t \in BagToSet(wbs) : WriteBack(t)
    \/ \E p \in Procs, e \in Dates : BreakdownBegin(p, plan.op, plan.start, e)
    \/ \E p \in Procs : BreakdownFetch(p, TRUE)
    \/ \E p \in Procs : BreakdownFetch(p, FALSE)

SpecBreakdown == InitBreakdown /\ [][NextBreakdown]_vars

\* The aggregator on its own, called with arbitrary items.
InitAggregate ==
    /\ Start
    /\ now = 0
    /\ plan = [mode |-> "aggregate", query_type |-> "aggregate", filter_id |-> "",
               start |-> 0, end |-> 0]

NextAggregate ==
    \/ \E items \in ItemSeqs :
          \E order \in IterOrders({KeyFn(items[i]) : i \in 1 .. Len(items)}) :
             AggregateCall("p1", items, order)
    \/ Return("p1")

SpecAggregate == InitAggregate /\ [][NextAggregate]_vars

\* The breakdowns by user and by model on arbitrary entries, every lookup
\* free to find a row, to find none or to fail.
InitEnrich ==
    /\ Start
    /\ now = 0
    /\ plan = [mode |-> "enrich", query_type |-> "", filter_id |-> "",
               start |-> 0, end |-> 0]

NextEnrich ==
    \/ \E op \in {"cost_by_user", "cost_by_model"}, costs \in CostSeqs :
          \E lk \in [1 .. Len(costs) -> LookupOutcomes] :
             EnrichCall("p1", op, costs, lk)
    \/ Return("p1")

SpecEnrich == InitEnrich /\ [][NextEnrich]_vars

\* Writers putting arbitrary records under the keys of one query kind.
InitPut ==
    /\ Start
    /\ now = 0
    /\ plan \in [mode : {"put"}, query_type : Kinds, filter_id : {""},
                 start : {0}, end : {0}]

NextPut ==
    \/ \E fi \in Filters, records \in PutSeqs : PutCall(fi, records)
    \/ \E t \in BagToSet(wbs) : WriteBack(t)
    \/ \E t \in BagToSet(wbs) : WriteBackErr(t)

SpecPut == InitPut /\ [][NextPut]_vars

\* Several callers issuing the same query at the same time on a cache that
\* starts empty, on one day.
InitConc ==
    /\ Start
    /\ now \in Days
    /\ plan \in [mode : {"concurrent"}, query_type : Kinds, filter_id : Filters,
                 start : Dates, end : Dates]

\* The billing API, the cache reads and the cache writes succeed.
NextConc ==
    \/ \E p \in Procs :
          Begin(p, plan.query_type, plan.filter_id, plan.start, plan.end)
    \/ \E p \in Procs : Read(p, TRUE)
    \/ \E p \in Procs : Fetch(p, TRUE)
    \/ \E p \in Procs : Live(p, TRUE)
    \/ \E p \in Procs : Return(p)
    \/ \E t \in BagToSet(wbs) : WriteBack(t)

SpecConc == InitConc /\ [][NextConc]_vars

-----------------------------------------------------------------------------
(* The dashboard handlers *)

\* The users table, the e-mails a session may hold ("c@x" belongs to no
\* user) and the one model.
Users == {"u1", "u2"}

Emails == {"a@x", "b@x", "c@x"}

ModelIds == {"m1"}

\* What session.get::<String>("email") yields: an error, or Option<String>.
Sessions ==
    {[ok |-> FALSE, email |-> << >>]}
    \cup {[ok |-> TRUE, email |-> e] : e \in {<< >>} \cup {<<x>> : x \in Emails}}

\* The base paths of the configuration and the prefix of a request path.
BasePaths == {"/", "/_dashboard"}

Handlers ==
    {"home", "daily_costs", "cost_date_detail", "cost_date_users",
     "cost_date_models", "cost_date_user_models", "cost_date_model_users",
     "monthly_costs", "cost_month_detail", "cost_month_users",
     "cost_month_models", "cost_month_user_models", "cost_month_model_users",
     "users", "models", "user_detail", "model_detail", "user_daily_costs",
     "user_monthly_costs", "model_daily_costs", "model_monthly_costs"}

\* The handlers whose path names a user, and those whose path names a model.
UserPathHandlers ==
    {"user_detail", "user_daily_costs", "user_monthly_costs",
     "cost_date_user_models", "cost_month_user_models"}

ModelPathHandlers ==
    {"model_detail", "model_daily_costs", "model_monthly_costs",
     "cost_date_model_users", "cost_month_model_users"}

PathIds(handler) ==
    IF handler \in UserPathHandlers THEN Users
    ELSE IF handler \in ModelPathHandlers THEN ModelIds
    ELSE {""}

\* build_router: the cost routes are nested under the base path; a path
\* outside it reaches no handler.
Route(base, prefix, handler) == IF prefix = base THEN handler ELSE "not_found"

\* A login check that lets a session without e-mail through.
RequireLogin_Anonymous(session) ==
    IF session.ok /\ session.email # << >>
    THEN [ok |-> TRUE, email |-> session.email[1]]
    ELSE [ok |-> TRUE, email |-> ""]

\* require_login: Ok(email) only for Ok(Some(email)), else the redirect.
RequireLogin(session) ==
    IF session.ok /\ session.email # << >>
    THEN [ok |-> TRUE, email |-> session.email[1]]
    ELSE [ok |-> FALSE, email |-> ""]

\* get_user_id_by_email on the users table.
GetUserIdByEmail(email) ==
    IF email = "a@x" THEN <<"u1">>
    ELSE IF email = "b@x" THEN <<"u2">>
    ELSE << >>

\* The cost of every user in the period a page shows.
Usages == [Users -> {1, 2}]

TotalUsage(usage) == usage["u1"] + usage["u2"]

ByUser(usage) ==
    <<[id |-> "u1", amount |-> usage["u1"]], [id |-> "u2", amount |-> usage["u2"]]>>

\* The cost records a service operation returns; the operations on
\* identities and listings return no cost record.
SvcData(op, arg, usage) ==
    IF op \in {"get_daily_cost", "get_monthly_cost"}
    THEN <<[id |-> "", amount |-> TotalUsage(usage)]>>
    ELSE IF op = "get_cost_by_user" THEN ByUser(usage)
    ELSE IF op = "get_cost_by_model"
    THEN <<[id |-> "m1", amount |-> TotalUsage(usage)]>>
    ELSE IF op \in {"get_daily_cost_for_user", "get_monthly_cost_for_user"}
    THEN IF arg \in Users THEN <<[id |-> arg, amount |-> usage[arg]]>> ELSE << >>
    ELSE IF op = "get_cost_by_model_for_user"
    THEN IF arg \in Users THEN <<[id |-> "m1", amount |-> usage[arg]]>> ELSE << >>
    ELSE IF op \in {"get_daily_cost_for_model", "get_monthly_cost_for_model"}
    THEN IF arg \in ModelIds THEN <<[id |-> arg, amount |-> TotalUsage(usage)]>>
         ELSE << >>
    ELSE IF op = "get_cost_by_user_for_model"
    THEN IF arg \in ModelIds THEN ByUser(usage) ELSE << >>
    ELSE << >>

\* A service call of a handler; only, when present, is the user id the
\* handler filters the returned entries by.
Svc(op, arg) == [op |-> op, arg |-> arg, only |-> << >>]

SvcOnly(op, arg, uid) == [op |-> op, arg |-> arg, only |-> <<uid>>]

StepData(step, usage) ==
    IF step.only = << >> THEN SvcData(step.op, step.arg, usage)
    ELSE SelectSeq(SvcData(step.op, step.arg, usage),
                   LAMBDA c : c.id = step.only[1])

RECURSIVE PageData(_, _)
PageData(steps, usage) ==
    IF steps = << >> THEN << >>
    ELSE StepData(Head(steps), usage) \o PageData(Tail(steps), usage)

RedirectTo(location) ==
    [status |-> "redirect", location |-> location, svc |-> << >>, data |-> << >>]

Forbidden(steps) ==
    [status |-> "forbidden", location |-> "", svc |-> steps, data |-> << >>]

NotFound ==
    [status |-> "not_found", location |-> "", svc |-> << >>, data |-> << >>]

Page(steps, usage) ==
    [status |-> "page", location |-> "", svc |-> steps,
     data |-> PageData(steps, usage)]

\* The handlers compiled alike in both modes: the pages of one user, of one
\* model, and the drill-downs by a user or a model named in the path.  found
\* is whether get_user_info / get_model_info finds the row.
SharedBody(handler, id, found) ==
    CASE handler = "user_detail" ->
            <<Svc("get_user_info", id)>>
            \o (IF found THEN << >> ELSE <<Svc("get_user_email", id)>>)
      [] handler = "user_daily_costs" ->
            <<Svc("get_user_email", id), Svc("get_daily_cost_for_user", id)>>
      [] handler = "user_monthly_costs" ->
            <<Svc("get_user_email", id), Svc("get_monthly_cost_for_user", id)>>
      [] handler = "model_detail" ->
            <<Svc("get_model_info", id)>>
            \o (IF found THEN << >> ELSE <<Svc("get_model_name", id)>>)
      [] handler = "model_daily_costs" ->
            <<Svc("get_model_name", id), Svc("get_daily_cost_for_model", id)>>
      [] handler = "model_monthly_costs" ->
            <<Svc("get_model_name", id), Svc("get_monthly_cost_for_model", id)>>
      [] handler \in {"cost_date_user_models", "cost_month_user_models"} ->
            <<Svc("get_user_email", id), Svc("get_cost_by_model_for_user", id)>>
      [] handler \in {"cost_date_model_users", "cost_month_model_users"} ->
            <<Svc("get_model_name", id), Svc("get_cost_by_user_for_model", id)>>

\* The handlers that check the path's user id against the caller's in
\* normal mode.
GuardedHandlers == {"user_detail", "user_daily_costs", "user_monthly_costs"}

\* #[cfg(feature = "admin")]: every user's costs.
AdminBody(handler, id, found) ==
    CASE handler = "home" ->
            <<Svc("get_daily_cost", ""), Svc("get_monthly_cost", ""),
              Svc("list_users", ""), Svc("list_models", "")>>
      [] handler = "daily_costs" -> <<Svc("get_daily_cost", "")>>
      [] handler = "monthly_costs" -> <<Svc("get_monthly_cost", "")>>
      [] handler = "users" ->
            <<Svc("list_users_enriched", ""), Svc("get_cost_by_user", "")>>
      [] handler = "models" ->
            <<Svc("list_models_enriched", ""), Svc("get_cost_by_model", "")>>
      [] handler \in {"cost_date_detail", "cost_month_detail"} ->
            <<Svc("get_daily_cost", ""), Svc("get_cost_by_user", ""),
              Svc("get_cost_by_model", "")>>
      [] handler \in {"cost_date_users", "cost_month_users"} ->
            <<Svc("get_cost_by_user", "")>>
      [] handler \in {"cost_date_models", "cost_month_models"} ->
            <<Svc("get_cost_by_model", "")>>
      [] OTHER -> SharedBody(handler, id, found)

\* #[cfg(not(feature = "admin"))]: the caller's user id is resolved from the
\* session's e-mail where the handler has a normal-mode branch.
NormalBody(handler, email, id, found) ==
    LET cur == GetUserIdByEmail(email)
        some == cur # << >>
        uid == IF some THEN cur[1] ELSE ""
        resolve == <<Svc("get_user_id_by_email", email)>>
    IN CASE handler = "home" ->
               resolve
               \o (IF some
                   THEN <<Svc("get_daily_cost_for_user", uid),
                          Svc("get_monthly_cost_for_user", uid),
                          Svc("get_cost_by_model_for_user", uid)>>
                   ELSE << >>)
         [] handler = "daily_costs" ->
               resolve \o (IF some THEN <<Svc("get_daily_cost", "")>> ELSE << >>)
         [] handler = "monthly_costs" ->
               resolve \o (IF some THEN <<Svc("get_monthly_cost", "")>> ELSE << >>)
         [] handler = "users" ->
               resolve
               \o (IF some
                   THEN <<SvcOnly("get_cost_by_user", "", uid),
                          SvcOnly("list_users_enriched", "", uid)>>
                   ELSE <<Svc("get_cost_by_user", ""),
                          Svc("list_users_enriched", "")>>)
         [] handler = "models" ->
               resolve
               \o (IF some THEN <<Svc("get_cost_by_model_for_user", uid)>>
                   ELSE << >>)
               \o <<Svc("list_models_enriched", "")>>
         [] handler \in {"cost_date_detail", "cost_month_detail"} ->
               resolve
               \o (IF some
                   THEN <<Svc("get_daily_cost", ""),
                          SvcOnly("get_cost_by_user", "", uid),
                          Svc("get_cost_by_model_for_user", uid)>>
                   ELSE << >>)
         [] handler \in {"cost_date_users", "cost_month_users"} ->
               resolve
               \o (IF some THEN <<SvcOnly("get_cost_by_user", "", uid)>>
                   ELSE <<Svc("get_cost_by_user", "")>>)
         [] handler \in {"cost_date_models", "cost_month_models"} ->
               resolve
               \o (IF some THEN <<Svc("get_cost_by_model_for_user", uid)>>
                   ELSE << >>)
         [] handler \in GuardedHandlers ->
               resolve
               \o (IF cur = <<id>> THEN SharedBody(handler, id, found) ELSE << >>)
         [] OTHER -> SharedBody(handler, id, found)

\* A handler from the login check to its response.
Handle(handler, session, id, found, admin, usage) ==
    LET login == RequireLogin(session)
    IN IF ~login.ok THEN RedirectTo("/login")
       ELSE IF admin THEN Page(AdminBody(handler, id, found), usage)
       ELSE IF /\ handler \in GuardedHandlers
               /\ GetUserIdByEmail(login.email) # <<id>>
       THEN Forbidden(NormalBody(handler, login.email, id, found))
       ELSE Page(NormalBody(handler, login.email, id, found), usage)

\* A GET request: the router picks the handler, the handler answers.
HandlerRequest(p, prefix, handler, session, id, found) ==
    /\ plan.mode = "route"
    /\ req[p].pc = "idle"
    /\ id \in PathIds(handler)
    /\ LET h == Route(plan.base, prefix, handler)
           resp == IF h = "not_found" THEN NotFound
                   ELSE Handle(h, session, id, found, plan.admin, plan.usage)
       IN req' = [req EXCEPT ![p] =
                    [Idle EXCEPT !.pc = "done", !.query_type = h,
                                 !.filter_id = id, !.session = session,
                                 !.status = resp.status,
                                 !.location = resp.location,
                                 !.calls = resp.svc, !.results = resp.data]]
    /\ UNCHANGED <<now, cache, wbs, plan, hist, lost>>

\* The dashboard in either build and under either base path, serving the
\* requests of any session, one at a time.
InitRoute ==
    /\ Start
    /\ now = 0
    /\ plan \in [mode : {"route"}, query_type : {""}, filter_id : {""},
                 start : {0}, end : {0}, base : BasePaths, admin : BOOLEAN,
                 usage : Usages]

NextRoute ==
    \/ \E prefix \in BasePaths, handler \in Handlers, session \in Sessions,
          id \in Users \cup ModelIds \cup {""}, found \in BOOLEAN :
          HandlerRequest("p1", prefix, handler, session, id, found)
    \/ Return("p1")

SpecRoute == InitRoute /\ [][NextRoute]_vars

\* A caller repeating one unfiltered query from day 0 on a cache that starts
\* empty, as days pass; the billing API, the cache reads and the cache
\* writes succeed.
InitAdvance ==
    /\ Start
    /\ now = 0
    /\ plan \in [mode : {"advance"}, query_type : Kinds, filter_id : {""},
                 start : {0}, end : Dates]

QueryStep ==
    \E p \in Procs :
       \/ Begin(p, plan.query_type, plan.filter_id, plan.start, plan.end)
       \/ Read(p, TRUE)
       \/ Fetch(p, TRUE)
       \/ Live(p, TRUE)
       \/ Return(p)

NextAdvance ==
    \/ Tick
    \/ QueryStep
    \/ \E t \in BagToSet(wbs) : WriteBack(t)

\* The caller keeps asking, the runtime keeps polling the request and the
\* spawned tasks, and the days go by.
SpecAdvance ==
    /\ InitAdvance /\ [][NextAdvance]_vars
    /\ WF_vars(Tick) /\ WF_vars(QueryStep)
    /\ WF_vars(\E t \in BagToSet(wbs) : WriteBack(t))

-----------------------------------------------------------------------------
(* Vocabulary of the properties *)

\* The freshness boundary as the data model words it: today for daily
\* queries, the first day of the current month for monthly ones.
Boundary(kind, today) == IF kind = "daily" THEN today ELSE today - (today % MonthLen)

RecDates(records) == {records[i].date : i \in 1 .. Len(records)}

Ranges(entries) == UNION {DateRange(entries[i].lo, entries[i].hi) : i \in 1 .. Len(entries)}

CallsOf(r, part) == SelectSeq(r.calls, LAMBDA c : c.part = part)

KeyRows(query_type, filter_id) ==
    {row \in cache : row.query_type = query_type /\ row.filter_id = filter_id}

-----------------------------------------------------------------------------
(* Freshness partition *)

\* C1: for every query with start < end, the dates of the cache read or
\* finalized fetch and the dates of the live fetch are disjoint and together
\* are exactly the dates of [start, end).
C1_PartitionExact ==
    \A p \in Procs :
        LET r == req[p]
            fin == IF r.reads # <<>> THEN Ranges(r.reads)
                   ELSE Ranges(CallsOf(r, "finalized"))
            liv == Ranges(CallsOf(r, "live"))
        IN (r.pc = "done" /\ r.start < r.end) =>
              /\ fin \cap liv = {}
              /\ fin \cup liv = DateRange(r.start, r.end)

\* C2: with a billing API that always succeeds, every query result holds
\* exactly one record per bucket date of [start, end): no gap, no duplicate.
\* Stated for the queries that start at or below the boundary, whose live
\* fetch does not reach back before start (see C1).
C2_ExactCoverage ==
    \A p \in Procs :
        LET r == req[p]
        IN (r.pc = "done" /\ r.start < r.end /\ r.start <= r.cutoff) =>
              /\ Cardinality(RecDates(r.results)) = Len(r.results)
              /\ RecDates(r.results) =
                    RecDates(CeRecords(r.query_type, r.filter_id, r.start, r.end))

-----------------------------------------------------------------------------
(* Coverage check and the miss path *)

\* C3: the sequence read from the cache is used as the finalized result if
\* and only if it is non-empty and its first date is <= start; otherwise the
\* query takes the miss path (a billing fetch, no cached record in the result).
C3_CoverageCheck ==
    \A p \in Procs :
        LET r == req[p]
            accept == Len(r.cached) > 0 /\ r.cached[1].date <= r.start
        IN r.path # "none" =>
              /\ (r.path = "hit") <=> accept
              /\ (r.path = "miss") <=> ~accept
              /\ r.path = "hit" =>
                    /\ CallsOf(r, "finalized") = <<>>
                    /\ r.spawned = <<>>
                    /\ SubSeq(r.results, 1, Len(r.cached)) = r.cached
              /\ r.path = "miss" =>
                    \/ r.pc = "fetch"
                    \/ /\ Len(CallsOf(r, "finalized")) = 1
                       /\ SubSeq(r.results, 1, Len(r.from_ce)) = r.from_ce

C3_Witness ==
    \E p \in Procs :
        /\ req[p].pc = "done" /\ req[p].path = "miss"
        /\ req[p].readOk /\ req[p].cached # <<>>

\* The case of C4: the read found exactly the records of [start + 1, end),
\* and end is at or below the boundary.
C4_Case(r) ==
    /\ r.path # "none" /\ r.readOk
    /\ r.end <= Boundary(r.query_type, r.today)
    /\ r.cached # <<>>
    /\ RecDates(r.cached) =
          RecDates(CeRecords(r.query_type, r.filter_id, r.start + 1, r.end))

\* C4: a cache holding only [d+1, end) for a query starting at d is a miss;
\* the one billing fetch is for the whole [d, end), the write-back spawned
\* carries every record of it, and each step of a write-back upserts the
\* task's next record.
C4_FullRefetch ==
    /\ [](\A p \in Procs :
            LET r == req[p]
            IN C4_Case(r) =>
                  /\ r.path = "miss"
                  /\ r.pc # "fetch" =>
                        /\ r.calls = <<[part |-> "finalized", lo |-> r.start,
                                        hi |-> r.end, ok |-> r.calls[1].ok]>>
                        /\ Len(r.spawned) = 1
                        /\ r.calls[1].ok =>
                              r.spawned[1].records =
                                 CeRecords(r.query_type, r.filter_id, r.start, r.end))
    /\ [][\A t \in BagToSet(wbs) :
            (WriteBack(t) /\ t.n < Len(t.records)) =>
                CacheRow(t.query_type, t.filter_id, t.records[t.n + 1]) \in cache']_vars

C4_Witness ==
    \E p \in Procs :
        /\ C4_Case(req[p])
        /\ req[p].pc = "done" /\ req[p].calls[1].ok

\* C5: a row enters the cache only with a date strictly below the boundary
\* of the day it is written; the records handed to the upsert are below the
\* boundary and none of them is a live record; the cache is never read at or
\* above the boundary.
C5_FinalizedOnly ==
    /\ [][\A row \in cache' \ cache : row.date < Boundary(row.query_type, now)]_vars
    /\ [](\A t \in BagToSet(wbs) :
            \A d \in RecDates(t.records) : d < Boundary(t.query_type, now))
    /\ [](\A p \in Procs :
            LET r == req[p]
            IN /\ \A i \in 1 .. Len(r.reads) :
                     r.reads[i].hi <= Boundary(r.query_type, r.today)
               /\ \A i \in 1 .. Len(r.spawned) :
                     /\ r.spawned[i].records = r.from_ce
                     /\ RecDates(r.spawned[i].records) \cap RecDates(r.live) = {}
                     /\ \A d \in RecDates(r.spawned[i].records) :
                           d < Boundary(r.query_type, r.today))

C5_Witness ==
    \E p \in Procs :
        /\ req[p].pc = "done"
        /\ req[p].spawned # <<>> /\ req[p].live # <<>>
        /\ KeyRows(req[p].query_type, req[p].filter_id) # {}

-----------------------------------------------------------------------------
(* Failures *)

\* What the finalized portion of a finished call must contribute: the cached
\* sequence on a hit, the billing records of [start, cache_end) on a miss
\* whose fetch succeeded, nothing when that fetch failed.
FinalizedPart(r) ==
    IF r.path = "hit" THEN r.cached
    ELSE IF r.path = "miss" /\ CallsOf(r, "finalized")[1].ok
         THEN CeRecords(r.query_type, r.filter_id, r.start, r.cache_end)
         ELSE <<>>

\* What the live portion must contribute: the billing records from cache_end
\* to end when the live fetch ran and succeeded, nothing otherwise.
LivePart(r) ==
    IF CallsOf(r, "live") # <<>> /\ CallsOf(r, "live")[1].ok
    THEN CeRecords(r.query_type, r.filter_id, r.cache_end, r.end)
    ELSE <<>>

\* C8: every call ends with a result; a sub-range whose billing call failed
\* contributes nothing and the other sub-range's records are returned whole:
\* when only the live fetch fails the result is the finalized data.
C8_FailureIsEmpty ==
    \A p \in Procs :
        LET r == req[p]
        IN r.pc = "done" =>
              /\ r.results = FinalizedPart(r) \o LivePart(r)
              /\ \A i \in 1 .. Len(r.calls) :
                    (~r.calls[i].ok /\ r.calls[i].part = "live") =>
                        r.results = FinalizedPart(r)
              /\ \A i \in 1 .. Len(r.calls) :
                    (~r.calls[i].ok /\ r.calls[i].part = "finalized") =>
                        r.results = LivePart(r)

C8_Witness ==
    \E p \in Procs :
        /\ req[p].pc = "done" /\ req[p].path = "miss"
        /\ Len(req[p].calls) = 2
        /\ req[p].calls[1].ok /\ ~req[p].calls[2].ok
        /\ req[p].results # <<>>

\* C9: a failed cache read is a miss: the finalized range is fetched from the
\* billing API, one write-back is spawned, and the result is the one an empty
\* cache gives (the fetched finalized records, then the live records).
C9_ReadFailureIsMiss ==
    \A p \in Procs :
        LET r == req[p]
        IN (r.path # "none" /\ ~r.readOk) =>
              /\ r.path = "miss"
              /\ r.pc # "fetch" =>
                    /\ Len(r.spawned) = 1
                    /\ Len(CallsOf(r, "finalized")) = 1
                    /\ CallsOf(r, "finalized")[1].lo = r.start
                    /\ CallsOf(r, "finalized")[1].hi = r.cache_end
              /\ r.pc = "done" =>
                    r.results =
                       CeFn(r.query_type, r.filter_id, r.start, r.cache_end,
                            CallsOf(r, "finalized")[1].ok)
                       \o LivePart(r)

\* The read fails although the cache would have been accepted.
C9_Witness ==
    \E p \in Procs :
        /\ req[p].pc = "done" /\ ~req[p].readOk
        /\ req[p].results # <<>>
        /\ \E row \in cache :
              /\ row.query_type = req[p].query_type
              /\ row.filter_id = req[p].filter_id
              /\ row.date = req[p].start

-----------------------------------------------------------------------------
(* The same query, repeated on a cache that starts empty *)

NoBillingFailure(r) == \A i \in 1 .. Len(r.calls) : r.calls[i].ok

StrictlyAscending(records) ==
    \A i \in 1 .. Len(records) - 1 : records[i].date < records[i + 1].date

\* C6 (first sentence): two calls in a row with the same arguments, from an
\* empty cache and with no failure anywhere, return identical results.
C6_IdenticalResults ==
    (/\ Len(hist) = 2
     /\ lost = 0
     /\ \A i \in 1 .. 2 : NoBillingFailure(hist[i]) /\ hist[i].readOk)
    => hist[1].results = hist[2].results

\* The cache has settled after calls whose billing fetches all succeeded:
\* nothing in flight, no write-back pending, none lost.
Settled ==
    /\ Len(hist) >= 1
    /\ InFlight = {}
    /\ wbs = EmptyBag
    /\ lost = 0
    /\ \A i \in 1 .. Len(hist) : NoBillingFailure(hist[i])

\* C7: once a call on an empty cache and its write-back have completed, the
\* cache holds under the key exactly one row per date of the finalized range
\* (the billing record of that date) and no row of the live range; in the
\* scenario of 2024-01-08 the result has 9 records in strictly ascending date
\* order and the cache holds exactly the 7 rows of 2024-01-01..2024-01-07.
C7_CacheAfterCall ==
    /\ Settled =>
          LET r == hist[1]
              fin == CeRecords(r.query_type, r.filter_id, r.start, r.cache_end)
          IN /\ cache = {CacheRow(r.query_type, r.filter_id, fin[i]) :
                            i \in 1 .. Len(fin)}
             /\ Cardinality(cache) = Cardinality(RecDates(fin))
             /\ \A row \in cache : row.date < Boundary(r.query_type, r.today)
             /\ \A row \in cache : row.date \notin RecDates(r.live)
    /\ (plan = JanPlan /\ Len(hist) >= 1 /\ NoBillingFailure(hist[1])) =>
          /\ Len(hist[1].results) = 9
          /\ StrictlyAscending(hist[1].results)
          /\ \A i \in 1 .. 9 : hist[1].results[i].amount = DayCost("", i)
    /\ (plan = JanPlan /\ Settled) =>
          /\ Cardinality(cache) = 7
          /\ {row.date : row \in cache} = 1 .. 7

C7_Witness ==
    /\ plan = JanPlan
    /\ Settled
    /\ Len(hist) = 1
    /\ Cardinality(cache) = 7
    /\ Len(hist[1].results) = 9

\* C10 (last clause): after a write-back of the first call has failed, the
\* only thing a later query for the same key observes is a miss.
C10_FailedWriteOnlyMisses ==
    \A p \in Procs :
        LET r == req[p]
        IN (Len(hist) = 1 /\ r.path # "none" /\ r.readOk /\ r.lostSeen >= 1) =>
              r.path = "miss"

-----------------------------------------------------------------------------
(* The detached write-back *)

\* The write-backs a call spawned that have not started to run.
PendingOf(r) == {t \in BagToSet(wbs) : t.n = 0 /\ \E i \in 1 .. Len(r.spawned) : r.spawned[i] = t}

\* C11: the write-back is detached.  The miss path hands the task to the
\* runtime without running it (the fetch step leaves the cache as it is and
\* adds one pending task); a call past its fetch can always take its next
\* step, whatever is pending; no step of a write-back, successful or failed,
\* changes a call in progress or a result already returned; and the result of
\* a call that missed is the billing records of its two fetches, whatever
\* became of the write-back.
C11_Detached ==
    /\ [][\A p \in Procs :
            (Fetch(p, TRUE) \/ Fetch(p, FALSE)) =>
                /\ cache' = cache
                /\ BagCardinality(wbs') = BagCardinality(wbs) + 1
                /\ BagIn(req'[p].spawned[1], wbs')
                /\ req'[p].pc \in {"live", "done"}]_vars
    /\ [][(\E t \in BagToSet(wbs) : WriteBack(t) \/ WriteBackErr(t)) =>
            (req' = req /\ hist' = hist)]_vars
    /\ [](\A p \in Procs :
            /\ req[p].pc = "live" => ENABLED Live(p, TRUE)
            /\ req[p].pc = "done" => ENABLED Return(p))
    /\ [](\A i \in 1 .. Len(hist) :
            hist[i].path = "miss" =>
                hist[i].results =
                   CeFn(hist[i].query_type, hist[i].filter_id, hist[i].start,
                        hist[i].cache_end, CallsOf(hist[i], "finalized")[1].ok)
                   \o LivePart(hist[i]))

\* A call has returned its records while the write-back it spawned has not
\* yet written a row.
C11_Witness ==
    /\ Len(hist) = 1
    /\ hist[1].results # <<>>
    /\ hist[1].spawned # <<>> /\ hist[1].spawned[1].records # <<>>
    /\ PendingOf(hist[1]) # {}
    /\ cache = {}

-----------------------------------------------------------------------------
(* Duplicate misses *)

\* A call that read the cache before any write-back had landed a row, and
\* whose billing fetches succeeded.
C12_Case(r) ==
    /\ r.path # "none" /\ r.readOk /\ r.cached = <<>>
    /\ NoBillingFailure(r)

\* C12: queries for the same key and range that read before any write-back
\* has landed each miss, fetch from the billing API and spawn a write-back of
\* their own; they all return the same result, and once their write-backs have
\* all run, in whatever order their rows were written, the cache holds what a
\* single write-back leaves.
C12_DuplicateMiss ==
    /\ \A p \in Procs :
          LET r == req[p]
          IN (r.path # "none" /\ r.readOk /\ r.cached = <<>>) =>
                /\ r.path = "miss"
                /\ r.pc # "fetch" =>
                      /\ Len(CallsOf(r, "finalized")) = 1
                      /\ Len(r.spawned) = 1
    /\ (/\ cache = {} /\ lost = 0
        /\ \A p \in Procs : \A i \in 1 .. Len(req[p].spawned) :
              req[p].spawned[i].records # <<>>)
       => BagCardinality(wbs) >= Cardinality({p \in Procs : req[p].spawned # <<>>})
    /\ \A i, j \in 1 .. Len(hist) :
          (C12_Case(hist[i]) /\ C12_Case(hist[j])) =>
              hist[i].results = hist[j].results
    /\ (/\ Len(hist) >= 2
        /\ \A i \in 1 .. Len(hist) : C12_Case(hist[i])
        /\ InFlight = {} /\ wbs = EmptyBag /\ lost = 0)
       => LET r == hist[1]
              one == CeRecords(r.query_type, r.filter_id, r.start, r.cache_end)
          IN cache = {CacheRow(r.query_type, r.filter_id, one[k]) : k \in 1 .. Len(one)}

\* Two calls missed on the empty cache, each wrote back more than one row,
\* and both write-backs have run.
C12_Witness ==
    /\ Len(hist) = 2
    /\ \A i \in 1 .. 2 : C12_Case(hist[i]) /\ Len(hist[i].spawned[1].records) >= 2
    /\ InFlight = {} /\ wbs = EmptyBag /\ lost = 0
    /\ Cardinality(cache) >= 2

-----------------------------------------------------------------------------
(* The cache put *)

SameKey(a, b) ==
    a.query_type = b.query_type /\ a.filter_id = b.filter_id /\ a.date = b.date

CacheKeys(rows) == {<<r.query_type, r.filter_id, r.date>> : r \in rows}

\* A whole put applied at once: its rows upserted in order.
RECURSIVE PutAll(_, _, _, _)
PutAll(rows, query_type, filter_id, records) ==
    IF records = <<>> THEN rows
    ELSE PutAll(UpsertRow(rows, CacheRow(query_type, filter_id, records[1])),
                query_type, filter_id, Tail(records))

PutTask(rows, t) == PutAll(rows, t.query_type, t.filter_id, t.records)

\* The last record of a put for a date.
LastFor(records, d) ==
    records[CHOOSE i \in 1 .. Len(records) :
               /\ records[i].date = d
               /\ \A j \in (i + 1) .. Len(records) : records[j].date # d]

-----------------------------------------------------------------------------
(* Cancellation *)

\* C14: abandoning a call does not cancel a write-back it has spawned: the
\* step that drops the call leaves the pending tasks and the cache as they
\* are, every pending task goes on to its end, and once it has ended without
\* failure the cache holds its rows.  A call abandoned while its finalized
\* fetch is in flight has spawned nothing, so as long as no call got past
\* that fetch nothing is written.
C14_CancelKeepsWriteBack ==
    /\ [][\A p \in Procs : Cancel(p) => (wbs' = wbs /\ cache' = cache)]_vars
    /\ []((/\ \A i \in 1 .. Len(hist) : hist[i].spawned = <<>>
           /\ \A p \in Procs : req[p].spawned = <<>>)
          => (cache = {} /\ wbs = EmptyBag))
    /\ [](\A i \in 1 .. Len(hist) :
            (hist[i].pc = "cancelled" /\ hist[i].path = "miss" /\ hist[i].from_ce = <<>>)
               => hist[i].spawned = <<>>)
    /\ []((/\ Len(hist) = 1 /\ hist[1].pc = "cancelled" /\ hist[1].spawned # <<>>
           /\ InFlight = {} /\ wbs = EmptyBag /\ lost = 0)
          => cache = PutTask({}, hist[1].spawned[1]))
    /\ ((\E i \in 1 .. Len(hist) :
            hist[i].pc = "cancelled" /\ hist[i].spawned # <<>>)
        ~> (wbs = EmptyBag))

\* A call was abandoned during its live fetch, and the write-back it had
\* spawned has since written all its rows.
C14_Witness ==
    /\ Len(hist) = 1
    /\ hist[1].pc = "cancelled" /\ hist[1].spawned # <<>>
    /\ Len(hist[1].spawned[1].records) >= 2
    /\ InFlight = {} /\ wbs = EmptyBag /\ lost = 0
    /\ cache = PutTask({}, hist[1].spawned[1])

-----------------------------------------------------------------------------
(* What changes the cache *)

\* C15: the cache changes only through write-backs spawned by a miss fetch.
\* No step removes a key; a step that changes the cache is a step of a
\* write-back; a write-back comes into being only at the fetch of a call that
\* missed; and a call that hit, a call with no finalized range and a live
\* fetch spawn nothing.
C15_OnlyMissWrites ==
    /\ [][CacheKeys(cache) \subseteq CacheKeys(cache')]_vars
    /\ [][cache' # cache => \E t \in BagToSet(wbs) : WriteBack(t)]_vars
    /\ [][wbs' # wbs =>
            \/ \E t \in BagToSet(wbs) : WriteBack(t) \/ WriteBackErr(t)
            \/ \E p \in Procs :
                  /\ req[p].path = "miss"
                  /\ Fetch(p, TRUE) \/ Fetch(p, FALSE)]_vars
    /\ [](\A p \in Procs :
            LET r == req[p]
            IN /\ r.path = "hit" => r.spawned = <<>>
               /\ (r.pc # "idle" /\ ~HasFinalized(r.start, r.cache_end)) =>
                     (r.spawned = <<>> /\ r.reads = <<>> /\ r.path = "none"))

\* A call has hit the cache and made its live fetch, on a cache that holds
\* rows.
C15_Witness ==
    \E p \in Procs :
        /\ req[p].pc = "done" /\ req[p].path = "hit"
        /\ req[p].live # <<>>
        /\ cache # {} /\ wbs = EmptyBag

-----------------------------------------------------------------------------
(* Order of the result *)

\* The records the finalized portion put into the result.
FinalizedOf(r) == IF r.path = "hit" THEN r.cached ELSE r.from_ce

\* C16: the result of a call is strictly ascending by date: it is the
\* finalized records followed by the live records, each part ascending, and
\* every finalized date is strictly below every live date, so no date repeats.
C16_AscendingResult ==
    \A p \in Procs :
        LET r == req[p]
        IN r.pc = "done" =>
              /\ r.results = FinalizedOf(r) \o r.live
              /\ \A d \in RecDates(FinalizedOf(r)) : \A e \in RecDates(r.live) : d < e
              /\ StrictlyAscending(r.results)
              /\ Cardinality(RecDates(r.results)) = Len(r.results)

\* A call returns several fetched finalized records followed by live ones.
C16_Witness ==
    \E p \in Procs :
        /\ req[p].pc = "done" /\ req[p].path = "miss"
        /\ Len(req[p].from_ce) >= 2
        /\ req[p].live # <<>>

-----------------------------------------------------------------------------
(* The live range *)

Max(a, b) == IF a > b THEN a ELSE b

\* C17: the live fetch of a call is for [max(cache_end, start), end), and
\* there is none when cache_end >= end; a call that starts after the boundary
\* asks the billing API for [start, end), never for a range that begins
\* before start.
C17_LiveRange ==
    \A p \in Procs :
        LET r == req[p]
            lv == CallsOf(r, "live")
        IN r.pc = "done" =>
              /\ (lv # <<>>) <=> (r.cache_end < r.end)
              /\ \A i \in 1 .. Len(lv) :
                    /\ lv[i].lo = Max(r.cache_end, r.start)
                    /\ lv[i].hi = r.end
                    /\ lv[i].lo >= r.start

-----------------------------------------------------------------------------
(* Exact boundary equality *)

\* C18: for a call with start < end, when start equals the boundary there is
\* no cache read, no finalized fetch and no write-back, and the one billing
\* call is the live fetch of the whole [start, end); when end equals the
\* boundary there is no live fetch and the finalized range, read from the
\* cache and on a miss fetched, is the whole [start, end).
C18_BoundaryEquality ==
    \A p \in Procs :
        LET r == req[p]
            b == Boundary(r.query_type, r.today)
        IN (r.pc = "done" /\ r.start < r.end) =>
              /\ r.start = b =>
                    /\ r.reads = <<>> /\ r.spawned = <<>> /\ r.path = "none"
                    /\ Len(r.calls) = 1
                    /\ r.calls[1].part = "live"
                    /\ r.calls[1].lo = r.start /\ r.calls[1].hi = r.end
              /\ r.end = b =>
                    /\ CallsOf(r, "live") = <<>>
                    /\ r.reads = <<[lo |-> r.start, hi |-> r.end]>>
                    /\ r.path = "miss" =>
                          /\ Len(r.calls) = 1
                          /\ r.calls[1].part = "finalized"
                          /\ r.calls[1].lo = r.start /\ r.calls[1].hi = r.end

\* The call query(daily, today, today + 1) has made its live fetch.
C18_Witness ==
    \E p \in Procs :
        /\ req[p].pc = "done" /\ req[p].query_type = "daily"
        /\ req[p].start = req[p].today /\ req[p].end = req[p].today + 1
        /\ req[p].live # <<>>

-----------------------------------------------------------------------------
(* Isolation by cache key *)

\* Some billing record of a key: a record of some period under it.
OwnRecord(query_type, filter_id, rec) ==
    \E lo \in Dates, hi \in Dates :
        \E i \in 1 .. Len(CeRecords(query_type, filter_id, lo, hi)) :
            CeRecords(query_type, filter_id, lo, hi)[i] = rec

\* C19: the six time series run the same routine under cache keys of their
\* own.  The filter ids of different variants or ids differ; a read returns
\* rows of the call's (query_kind, filter_id) only; a write-back carries the
\* key of the call that spawned it, and its steps leave the rows of every
\* other key as they were; so every record a call returns, cached or fetched,
\* is a billing record of its own key, whatever was queried under other keys.
C19_KeyIsolation ==
    /\ [](\A v \in Variants, w \in Variants, i \in Ids \cup {""}, j \in Ids \cup {""} :
            FilterId(v, i) = FilterId(w, j) => (v = w /\ (v = "none" \/ i = j)))
    /\ [][\A p \in Procs :
            Read(p, TRUE) =>
                req'[p].cached = SortByDate({row \in KeyRows(req[p].query_type, req[p].filter_id) :
                                                req[p].start <= row.date
                                                /\ row.date < req[p].cache_end})]_vars
    /\ [](\A p \in Procs : \A i \in 1 .. Len(req[p].spawned) :
            /\ req[p].spawned[i].query_type = req[p].query_type
            /\ req[p].spawned[i].filter_id = req[p].filter_id)
    /\ [][\A t \in BagToSet(wbs) :
            WriteBack(t) =>
                \A qt \in Kinds, fi \in AllFilters :
                    <<qt, fi>> # <<t.query_type, t.filter_id>> =>
                        KeyRows(qt, fi)' = KeyRows(qt, fi)]_vars
    /\ [](\A row \in cache :
            OwnRecord(row.query_type, row.filter_id,
                      [date |-> row.date, amount |-> row.amount, currency |-> row.currency]))
    /\ [](\A p \in Procs : \A i \in 1 .. Len(req[p].results) :
            OwnRecord(req[p].query_type, req[p].filter_id, req[p].results[i]))

\* A by-user call has hit its cached rows while the cache holds rows of the
\* by-model series of the same id for the same dates.
C19_Witness ==
    \E p \in Procs, row \in cache :
        /\ req[p].pc = "done" /\ req[p].path = "hit"
        /\ req[p].filter_id = "user:u1"
        /\ row.filter_id = "model:u1"
        /\ row.query_type = req[p].query_type
        /\ row.date = req[p].start

-----------------------------------------------------------------------------
(* Dimension breakdowns *)

\* C20: a dimension breakdown never touches the cache: its steps leave the
\* cache and the pending write-backs as they are, it reads no cached row and
\* spawns nothing, it makes exactly one billing call, for [start, end), even
\* when the cache holds rows of that range, and it returns the aggregated
\* records of that call, or the empty list when the call failed.
C20_BreakdownUncached ==
    /\ [][\A p \in Procs :
            (\/ \E e \in Dates : BreakdownBegin(p, plan.op, plan.start, e)
             \/ BreakdownFetch(p, TRUE)
             \/ BreakdownFetch(p, FALSE))
            => (cache' = cache /\ wbs' = wbs)]_vars
    /\ [](\A p \in Procs :
            LET r == req[p]
            IN r.query_type \in BreakdownOps =>
                  /\ r.reads = <<>> /\ r.cached = <<>> /\ r.spawned = <<>>
                  /\ r.pc = "done" =>
                        /\ Len(r.calls) = 1
                        /\ r.calls[1].part = "breakdown"
                        /\ r.calls[1].lo = r.start /\ r.calls[1].hi = r.end
                        /\ ~r.calls[1].ok => r.results = <<>>
                        /\ r.calls[1].ok =>
                              r.results = BreakdownRecords(r.query_type, r.start, r.end))

\* A breakdown whose billing call failed is about to return, while the cache
\* holds rows of its period.
C20_Witness ==
    \E p \in Procs :
        /\ req[p].query_type \in BreakdownOps
        /\ req[p].pc = "done" /\ ~req[p].calls[1].ok
        /\ req[p].start < req[p].end
        /\ \E row \in cache : req[p].start <= row.date /\ row.date < req[p].end

-----------------------------------------------------------------------------
(* The aggregator *)

\* A finished call of the aggregator: its items and its output.
AggDone(p) == req[p].pc = "done" /\ req[p].query_type = "aggregate"

RECURSIVE SumAmounts(_, _)
SumAmounts(seq, n) == IF n = 0 THEN 0 ELSE SumAmounts(seq, n - 1) + seq[n].amount

WithKey(seq, k) == SelectSeq(seq, LAMBDA x : x.id = k)

\* C21: the output of the aggregator has exactly one element per distinct
\* key of the items, its amount the sum of the amounts of the items with that
\* key, so the totals of output and input agree; no item gives no element,
\* and a single item gives one element with that item's key and amount.
C21_OnePerKeySummed ==
    \A p \in Procs :
        AggDone(p) =>
            LET items == req[p].from_ce
                out == req[p].results
            IN /\ {out[i].id : i \in 1 .. Len(out)} = {items[i].id : i \in 1 .. Len(items)}
               /\ \A i, j \in 1 .. Len(out) : out[i].id = out[j].id => i = j
               /\ \A i \in 1 .. Len(out) :
                     out[i].amount =
                        SumAmounts(WithKey(items, out[i].id), Len(WithKey(items, out[i].id)))
               /\ SumAmounts(out, Len(out)) = SumAmounts(items, Len(items))
               /\ items = << >> => out = << >>
               /\ Len(items) = 1 =>
                     (Len(out) = 1 /\ out[1].id = items[1].id
                      /\ out[1].amount = items[1].amount)

\* Items of one key around an item of another were summed into two elements.
C21_Witness ==
    \E p \in Procs :
        /\ AggDone(p)
        /\ Len(req[p].from_ce) = 3 /\ Len(req[p].results) = 2
        /\ req[p].from_ce[1].id = req[p].from_ce[3].id
        /\ req[p].from_ce[1].id # req[p].from_ce[2].id

\* C22: the output of the aggregator is ordered by total descending: of two
\* adjacent elements the earlier one's total is at least the later one's,
\* whatever the order of the items; elements of equal total come in the order
\* the map yielded them.
C22_DescendingTotals ==
    \A p \in Procs :
        AggDone(p) =>
            LET out == req[p].results
            IN \A i \in 1 .. Len(out) - 1 : out[i].amount >= out[i + 1].amount

\* Three keys, the items given with the smallest amount first: the output
\* starts with the largest total and ends with the key given first.
C22_Witness ==
    \E p \in Procs :
        /\ AggDone(p)
        /\ Len(req[p].from_ce) = 3 /\ Len(req[p].results) = 3
        /\ req[p].from_ce[1].amount < req[p].from_ce[2].amount
        /\ req[p].from_ce[1].amount < req[p].from_ce[3].amount
        /\ req[p].results[1].amount > req[p].results[3].amount
        /\ req[p].results[3].id = req[p].from_ce[1].id

\* The first item of a key, in input order.
FirstWithKey(items, k) == Head(WithKey(items, k))

\* C23: the currency the aggregator reports for a key is the currency of the
\* first item with that key, also when later items of the key carry another
\* currency; their amounts are summed all the same.
C23_FirstCurrency ==
    \A p \in Procs :
        AggDone(p) =>
            LET items == req[p].from_ce
                out == req[p].results
            IN \A i \in 1 .. Len(out) :
                  /\ out[i].currency = FirstWithKey(items, out[i].id).currency
                  /\ out[i].amount =
                        SumAmounts(WithKey(items, out[i].id), Len(WithKey(items, out[i].id)))

\* Two items of one key in different currencies were summed under the
\* currency of the first.
C23_Witness ==
    \E p \in Procs :
        /\ AggDone(p)
        /\ Len(req[p].from_ce) = 2 /\ Len(req[p].results) = 1
        /\ req[p].from_ce[1].currency # req[p].from_ce[2].currency
        /\ req[p].results[1].currency = req[p].from_ce[1].currency
        /\ req[p].results[1].amount = req[p].from_ce[1].amount + req[p].from_ce[2].amount

-----------------------------------------------------------------------------
(* Identity resolution *)

\* The lookup made for an id, if one was made.
LookupOf(r, id) == SelectSeq(r.calls, LAMBDA c : c.part = "lookup" /\ c.id = id)

\* The name of an id could not be resolved: the id is no UUID, or its lookup
\* failed or found no row.
Unresolved(r, id) ==
    \/ ParseUuid(id) = << >>
    \/ LookupOf(r, id)[1].outcome \in {"no_row", "error"}

\* C24: a failed resolution neither removes nor fails an entry of a
\* breakdown: every entry of the billing call is returned, in place, with its
\* id, amount and currency; an entry whose name could not be resolved has no
\* name and is shown under its raw id, a resolved one under its name.
C24_UnresolvedKept ==
    \A p \in Procs :
        LET r == req[p]
        IN (r.pc = "done" /\ r.query_type \in {"cost_by_user", "cost_by_model"}) =>
              /\ Len(r.results) = Len(r.from_ce)
              /\ \A i \in 1 .. Len(r.from_ce) :
                    /\ r.results[i].id = r.from_ce[i].id
                    /\ r.results[i].amount = r.from_ce[i].amount
                    /\ r.results[i].currency = r.from_ce[i].currency
                    /\ Unresolved(r, r.from_ce[i].id) =>
                          /\ r.results[i].name = << >>
                          /\ Display(r.results[i]) = r.from_ce[i].id
                    /\ ~Unresolved(r, r.from_ce[i].id) =>
                          /\ r.results[i].name # << >>
                          /\ Display(r.results[i]) = r.results[i].name[1]

\* A breakdown returned an entry whose id is no UUID next to one whose lookup
\* failed.
C24_Witness ==
    \E p \in Procs :
        /\ req[p].pc = "done" /\ req[p].query_type = "cost_by_user"
        /\ Len(req[p].results) = 2
        /\ ParseUuid(req[p].results[1].id) = << >>
        /\ Len(req[p].calls) = 1 /\ req[p].calls[1].outcome = "error"
        /\ req[p].results[2].name = << >>

-----------------------------------------------------------------------------
(* Login *)

\* The requests that reached a dashboard handler and were answered.
Answered(p) == req[p].pc = "done" /\ req[p].query_type \in Handlers

\* C25: a request to any dashboard route, under any base path, whose session
\* holds no e-mail is answered with a redirect to /login and invokes no
\* operation of the cost service.
C25_LoginRequired ==
    \A p \in Procs :
       (Answered(p) /\ req[p].session.email = << >>) =>
          /\ req[p].status = "redirect"
          /\ req[p].location = "/login"
          /\ req[p].calls = << >>
          /\ req[p].results = << >>

C25_Witness ==
    /\ plan.base = "/_dashboard"
    /\ Answered("p1")
    /\ req["p1"].query_type = "user_daily_costs"
    /\ req["p1"].session = [ok |-> TRUE, email |-> << >>]
    /\ req["p1"].status = "redirect"

-----------------------------------------------------------------------------
(* Cache fill as days pass *)

\* The dates of the records the billing API reports for a queried range.
QueriedDates(r) == RecDates(CeRecords(r.query_type, r.filter_id, r.start, r.end))

HasRow(query_type, filter_id, d) ==
    \E row \in KeyRows(query_type, filter_id) : row.date = d

\* C26: with queries of one key repeated as the days pass and no failure,
\* every date of a queried range that is below the boundary is eventually
\* stored in the cache, also a date that was live when an earlier query
\* populated the cache.
C26_EventuallyCached ==
    \A d \in Dates :
       (\E p \in Procs :
           /\ req[p].pc = "done"
           /\ d \in QueriedDates(req[p])
           /\ d < Boundary(plan.query_type, now))
       ~> HasRow(plan.query_type, plan.filter_id, d)

-----------------------------------------------------------------------------
(* The cache against a direct billing query *)

\* The records the billing API returns for the finalized range of a request.
DirectFinalized(r) == CeRecords(r.query_type, r.filter_id, r.start, r.cache_end)

InSeq(x, s) == \E i \in 1 .. Len(s) : s[i] = x

\* C27: every record a query returns from the cache has the date, amount and
\* currency the billing API returns for that date under the same kind and
\* filter, after any sequence of queries and write-backs with overlapping
\* ranges.
C27_CacheRefinesBilling ==
    \A p \in Procs :
       LET r == req[p]
       IN r.path = "hit" =>
             \A i \in 1 .. Len(r.cached) : InSeq(r.cached[i], DirectFinalized(r))

\* The same for the daily series alone.
C27_DailyOnly ==
    \A p \in Procs :
       LET r == req[p]
       IN (r.path = "hit" /\ r.query_type = "daily") =>
             \A i \in 1 .. Len(r.cached) : InSeq(r.cached[i], DirectFinalized(r))

\* A monthly query for a whole closed month served an amount cached by a
\* query that ended inside that month.
C27_ClippedMonth ==
    \E p \in Procs :
       LET r == req[p]
       IN /\ r.path = "hit" /\ r.query_type = "monthly"
          /\ r.start = 0 /\ r.cache_end = MonthLen
          /\ r.cached = <<[date |-> 0, amount |-> DayCost(r.filter_id, 0),
                           currency |-> "USD"]>>

-----------------------------------------------------------------------------
(* A failed finalized fetch *)

\* The call took the miss path and its finalized fetch failed.
FetchFailed(r) ==
    /\ r.path = "miss"
    /\ \E i \in 1 .. Len(r.calls) : r.calls[i].part = "finalized" /\ ~r.calls[i].ok

\* C28: a billing failure during the finalized fetch does not poison the
\* cache.  The write-back spawned for that miss holds no record and its run
\* leaves the cache as it is; so after a first call whose finalized fetch
\* failed the cache stays empty until a later fetch succeeds, and the next
\* call for the same key reads nothing, misses again and asks the billing API
\* for the whole finalized range.
C28_FailureNotCached ==
    /\ [][\A t \in BagToSet(wbs) :
            (WriteBack(t) /\ t.records = << >>) => cache' = cache]_vars
    /\ [](\A i \in 1 .. Len(hist) :
            FetchFailed(hist[i]) =>
               /\ Len(hist[i].spawned) = 1
               /\ hist[i].spawned[1].records = << >>)
    /\ []((Len(hist) = 1 /\ FetchFailed(hist[1])) =>
            /\ (\A p \in Procs : req[p].from_ce = << >>) => cache = {}
            /\ \A p \in Procs :
                  LET r == req[p]
                  IN /\ r.path # "none" => (r.path = "miss" /\ r.cached = << >>)
                     /\ r.pc \in {"live", "done"} =>
                           CallsOf(r, "finalized") \in
                              {<<[part |-> "finalized", lo |-> r.start,
                                  hi |-> r.cache_end, ok |-> ok]>> : ok \in BOOLEAN})

C28_Witness ==
    /\ Len(hist) = 1 /\ FetchFailed(hist[1])
    /\ hist[1].readOk
    /\ wbs = EmptyBag
    /\ \E p \in Procs :
          /\ req[p].pc = "done" /\ req[p].path = "miss" /\ req[p].readOk
          /\ req[p].from_ce # << >>

-----------------------------------------------------------------------------
(* Empty ranges *)

\* C29: a query whose range is empty (start >= end) returns the empty
\* sequence and makes no cache read, no billing call and no write-back,
\* wherever start lies relative to the cutoff.
C29_EmptyRangeIsNoop ==
    \A p \in Procs :
       LET r == req[p]
       IN (r.pc = "done" /\ r.start >= r.end) =>
             /\ r.results = << >>
             /\ r.reads = << >>
             /\ r.calls = << >>
             /\ r.spawned = << >>

\* The same for the empty ranges that end at or below the cutoff.
C29_BelowCutoff ==
    \A p \in Procs :
       LET r == req[p]
       IN (r.pc = "done" /\ r.start >= r.end /\ r.end <= r.cutoff) =>
             /\ r.results = << >>
             /\ r.reads = << >>
             /\ r.calls = << >>
             /\ r.spawned = << >>

-----------------------------------------------------------------------------
(* Per-user filtering *)

\* The request was answered in normal mode for a session that holds an
\* e-mail.
NormalAnswered(p) ==
    /\ Answered(p) /\ ~plan.admin
    /\ req[p].session.ok /\ req[p].session.email # << >>

CurrentUser(r) == GetUserIdByEmail(r.session.email[1])

\* The cost of the caller is the same under both usages.
SameForCaller(r, a, b) == CurrentUser(r) # << >> => a[CurrentUser(r)[1]] = b[CurrentUser(r)[1]]

OwnCostsOnly(r) ==
    /\ \A i \in 1 .. Len(r.calls) :
          r.calls[i].arg \in Users => CurrentUser(r) = <<r.calls[i].arg>>
    /\ r.status = "page" =>
          \A other \in Usages :
             SameForCaller(r, plan.usage, other) => PageData(r.calls, other) = r.results
    /\ (r.query_type \in UserPathHandlers /\ CurrentUser(r) # <<r.filter_id>>) =>
          r.status = "forbidden"

\* C30: in normal mode the cost data a logged-in user is shown depends only
\* on that user's own id: no handler passes another user's id to the service,
\* the response is the same whatever the other users' costs are, and a
\* request naming a different user id is answered with 403.
C30_OwnCostsOnly ==
    \A p \in Procs : NormalAnswered(p) => OwnCostsOnly(req[p])

\* The same for the home page and the pages under /users/{id}.
C30_GuardedPages ==
    \A p \in Procs :
       (NormalAnswered(p) /\ req[p].query_type \in GuardedHandlers \cup {"home"}) =>
          OwnCostsOnly(req[p])

\* The daily costs page of a user shows the total of all users.
C30_DailyCostsUnfiltered ==
    \E p \in Procs :
       /\ NormalAnswered(p)
       /\ req[p].query_type = "daily_costs"
       /\ CurrentUser(req[p]) = <<"u1">>
       /\ req[p].results = <<[id |-> "", amount |-> TotalUsage(plan.usage)]>>

\* The models of another user on a date are served without a 403.
C30_OtherUserModels ==
    \E p \in Procs :
       /\ NormalAnswered(p)
       /\ req[p].query_type = "cost_date_user_models"
       /\ CurrentUser(req[p]) = <<"u1">>
       /\ req[p].filter_id = "u2"
       /\ req[p].status = "page"
       /\ req[p].results = <<[id |-> "m1", amount |-> plan.usage["u2"]]>>

====
